---------------------------- MODULE Spec2Model ----------------------------
(***************************************************************************)
(* A model of microbundle: src/src/index.js (entry resolution, format      *)
(* scheduling, createConfig, the sequential and the watch executor) and    *)
(* src/src/lib/babel-custom.js (config(), mergeConfigItems).               *)
(*                                                                         *)
(* Strings that the code takes apart are kept in parts.  A path is a       *)
(* sequence of segments (the text between slashes) relative to cwd, and a  *)
(* segment is the sequence of its dot-separated parts:                     *)
(*     dist/acme.module.js  is  << <<"dist">>, <<"acme","module","js">> >> *)
(* The empty path <<>> is the absent (falsy) value of a path-valued field. *)
(*                                                                         *)
(* A JavaScript options object is a record of three maps by kind of value: *)
(* s holds the keys with a scalar value, o the keys whose value is a plain *)
(* object of scalars and a the keys whose value is an array of scalars; a  *)
(* key in none of the maps is undefined.                                   *)
(***************************************************************************)
EXTENDS Integers, Sequences, FiniteSets, TLC

VARIABLES
    pc,           \* position of microbundle() (or of the babel plugin)
    env,          \* the inputs: manifest file, filesystem, file texts, options
    pkg,          \* options.pkg
    input,        \* options.input
    output,       \* options.output
    entries,      \* options.entries after resolution
    formats,      \* the sorted format list
    steps,        \* the BuildConfigs, in schedule order
    promise,      \* the promise microbundle() returns
    cache,        \* the `cache` variable of the sequential executor
    cur,          \* index of the step the sequential executor is at
    phase,        \* per step: idle, bundling, writing, sizing, done
    out,          \* the size reports collected by series()
    written,      \* output files written so far, in order
    wrote,        \* watch mode: files reported by "Wrote ..." lines, in order
    lastEvent,    \* watch mode: the event the handler ran last
    nEvents,      \* watch mode: number of events handled
    heap,         \* name-cache objects by identity: id -> set of names
    nameCache,    \* per step: the object the closure variable nameCache holds
    mangleFile,   \* mangle.json on disk
    pendingWrite, \* an fs.writeFile of mangle.json in flight
    bIn,          \* babel-custom: arguments of config()
    bOut          \* babel-custom: what config() returned

runVars == <<pkg, input, output, entries, formats, steps, promise, cache, cur,
             phase, out, written, wrote, lastEvent, nEvents, heap, nameCache,
             mangleFile, pendingWrite>>
babelVars == <<bIn, bOut>>
vars == <<pc, env, runVars, babelVars>>

(***************************************************************************)
(* Bounds of the model.                                                    *)
(***************************************************************************)
MaxFormats == 2
MaxEvents == 2
MaxPlugins == 2

Absent == "absent"

Max(a, b) == IF a >= b THEN a ELSE b
Last(s) == s[Len(s)]
Front(s) == SubSeq(s, 1, Len(s) - 1)
Range(s) == {s[i] : i \in 1..Len(s)}

RECURSIVE Flatten(_)
Flatten(ss) == IF ss = <<>> THEN <<>> ELSE Head(ss) \o Flatten(Tail(ss))

(***************************************************************************)
(* The paths of the model's world.                                         *)
(***************************************************************************)
RootIndex == << <<"index", "js">> >>
LibDir == << <<"lib">> >>
LibFoo == << <<"lib">>, <<"foo", "js">> >>
LibIndex == << <<"lib">>, <<"index", "js">> >>
SrcDir == << <<"src">> >>
SrcFoo == << <<"src">>, <<"foo", "js">> >>
SrcIndex == << <<"src">>, <<"index", "js">> >>
SrcStar == << <<"src">>, <<"*", "js">> >>
Missing == << <<"missing", "js">> >>
DistDir == << <<"dist">> >>
DistAcme == << <<"dist">>, <<"acme", "js">> >>
DistAcmeModule == << <<"dist">>, <<"acme", "module", "js">> >>
DistAcmeUmd == << <<"dist">>, <<"acme", "umd", "js">> >>
DistAcmeMjs == << <<"dist">>, <<"acme", "mjs">> >>
WrapperEntry == << <<"__microbundle__">>, <<"src">>, <<"lib">>, <<"__entry__", "js">> >>

\* every path that can exist on disk, in the alphabetical order glob returns
Universe == <<RootIndex, LibDir, LibFoo, LibIndex, SrcDir, SrcFoo, SrcIndex>>
AllFiles == {RootIndex, LibFoo, LibIndex, SrcFoo, SrcIndex}
ParentDirs(fileSet) == {Front(f) : f \in {g \in fileSet : Len(g) > 1}}

\* parts made of the letters a-z only (what /[a-z]+/ accepts)
LowerAlpha == {"js", "mjs", "m", "es", "umd", "cjs", "module", "index", "foo",
               "acme", "dist", "lib", "src", "proj", "missing"}
FormatSuffixes == {"umd", "cjs", "es", "m"}

isDir(name) == name \in env.dirs
isFile(name) == name \in env.files

\* one segment against one segment of a glob pattern ("*" matches any text
\* without a slash, dots included)
SegMatch(pat, seg) ==
    IF pat # <<>> /\ pat[1] = "*"
    THEN /\ Len(seg) >= Len(pat)
         /\ SubSeq(seg, Len(seg) - Len(pat) + 2, Len(seg)) = Tail(pat)
    ELSE pat = seg

PathMatch(pat, path) ==
    /\ Len(pat) = Len(path)
    /\ \A i \in 1..Len(pat) : SegMatch(pat[i], path[i])

\* glob.sync(resolve(cwd, file)): the existing files and directories that
\* match, sorted
Glob(pat) ==
    SelectSeq(Universe, LAMBDA p : (isFile(p) \/ isDir(p)) /\ PathMatch(pat, p))


(***************************************************************************)
(* microbundle(): entry resolution (index.js 51-72).                       *)
(***************************************************************************)
\* a variant that prefers the manifest's module field to the conventional
\* files
EntryCandidate_moduleFirst ==
    IF Len(env.opts.entries) > 0 THEN env.opts.entries
    ELSE IF pkg.source # <<>> THEN <<pkg.source>>
    ELSE IF pkg.module # <<>> THEN <<pkg.module>>
    ELSE IF isDir(SrcDir) THEN <<SrcIndex>>
    ELSE IF isFile(RootIndex) THEN <<RootIndex>>
    ELSE << <<>> >>

\* the argument of [].concat(...) on line 53: the explicit entries, or the
\* first candidate that is set; << <<>> >> stands for [undefined]
EntryCandidate ==
    IF Len(env.opts.entries) > 0 THEN env.opts.entries
    ELSE IF pkg.source # <<>> THEN <<pkg.source>>
    ELSE IF isDir(SrcDir) THEN <<SrcIndex>>
    ELSE IF isFile(RootIndex) THEN <<RootIndex>>
    ELSE <<pkg.module>>

\* options.output (lines 56-60)
HasExtension(path) == Len(Last(path)) >= 2 /\ Last(Last(path)) \in LowerAlpha

MainPath ==
    LET raw == IF env.opts.output # <<>> THEN env.opts.output
               ELSE IF pkg.main # <<>> THEN pkg.main
               ELSE DistDir
    IN  IF ~HasExtension(raw) \/ isDir(raw)
        THEN Append(raw, pkg.name \o <<"js">>)
        ELSE raw

\* lines 62-68: a directory is replaced by its index.js, then the list is
\* deduplicated keeping first occurrences
EntryFile(file) == IF isDir(file) THEN Append(file, <<"index", "js">>) ELSE file

RECURSIVE DedupInto(_, _)
DedupInto(acc, s) ==
    IF s = <<>> THEN acc
    ELSE DedupInto(IF Head(s) \in Range(acc) THEN acc ELSE Append(acc, Head(s)), Tail(s))

Dedup(s) == DedupInto(<<>>, s)

ResolvedEntries == Dedup([i \in 1..Len(input) |-> EntryFile(input[i])])

(***************************************************************************)
(* The format sort of line 76.  The comparator is not a consistent         *)
(* ordering (it answers -1 for ("cjs", x) and 0 for (x, "cjs") when x      *)
(* sorts below "cjs"), so the result depends on the argument order the     *)
(* engine's Array.prototype.sort uses; both of V8's algorithms for short   *)
(* arrays are modelled.                                                    *)
(***************************************************************************)
\* the format names in string order
FormatOrder == <<"amd", "cjs", "es", "umd">>
Formats == Range(FormatOrder)
Rank(f) == CHOOSE i \in 1..Len(FormatOrder) : FormatOrder[i] = f

Compare(a, b) == IF a = "cjs" THEN -1 ELSE IF Rank(a) > Rank(b) THEN 1 ELSE 0

\* V8 before 7.0: insertion sort, calling comparefn(a[j], element)
RECURSIVE SiftDown(_, _, _)
SiftDown(a, j, element) ==
    IF j >= 1 /\ Compare(a[j], element) > 0
    THEN SiftDown([a EXCEPT ![j + 1] = a[j]], j - 1, element)
    ELSE [a EXCEPT ![j + 1] = element]

RECURSIVE InsertionSortFrom(_, _)
InsertionSortFrom(a, i) ==
    IF i > Len(a) THEN a ELSE InsertionSortFrom(SiftDown(a, i - 1, a[i]), i + 1)

\* V8 from 7.0: TimSort; below the minimum run length it is one counted run
\* followed by a binary insertion sort, calling comparefn(pivot, a[mid])
RECURSIVE RunLength(_, _, _)
RunLength(a, idx, descending) ==
    IF idx > Len(a) THEN idx - 1
    ELSE LET order == Compare(a[idx], a[idx - 1])
         IN  IF (descending /\ order >= 0) \/ (~descending /\ order < 0)
             THEN idx - 1
             ELSE RunLength(a, idx + 1, descending)

RECURSIVE BinarySearch(_, _, _, _)
BinarySearch(a, pivot, left, right) ==
    IF left >= right THEN left
    ELSE LET mid == left + ((right - left) \div 2)
         IN  IF Compare(pivot, a[mid]) < 0
             THEN BinarySearch(a, pivot, left, mid)
             ELSE BinarySearch(a, pivot, mid + 1, right)

RECURSIVE BinaryInsertionFrom(_, _)
BinaryInsertionFrom(a, start) ==
    IF start > Len(a) THEN a
    ELSE LET pivot == a[start]
             at == BinarySearch(a, pivot, 1, start)
             b == SubSeq(a, 1, at - 1) \o <<pivot>> \o SubSeq(a, at, start - 1)
                      \o SubSeq(a, start + 1, Len(a))
         IN  BinaryInsertionFrom(b, start + 1)

TimSort(a) ==
    IF Len(a) < 2 THEN a
    ELSE LET descending == Compare(a[2], a[1]) < 0
             run == RunLength(a, 3, descending)
             made == IF descending
                     THEN [i \in 1..Len(a) |-> IF i <= run THEN a[run + 1 - i] ELSE a[i]]
                     ELSE a
         IN  BinaryInsertionFrom(made, run + 1)

SortEngines == {"insertion", "timsort"}

SortFormats(engine, a) ==
    IF engine = "insertion" THEN InsertionSortFrom(a, 2) ELSE TimSort(a)

(***************************************************************************)
(* createConfig (index.js 126-301): the parts that decide the input, the   *)
(* export mode, the output file and the name-cache wiring.                 *)
(***************************************************************************)
\* /(\\|\/)index(\.(umd|cjs|es|m))?\.js$/ on an absolute path
IsIndexEntry(entry) ==
    LET seg == Last(entry)
    IN  \/ seg = <<"index", "js">>
        \/ Len(seg) = 3 /\ seg[1] = "index" /\ seg[2] \in FormatSuffixes /\ seg[3] = "js"

\* .replace(/(\.(umd|cjs|es|m))?\.js$/, '') on a path
StripJs(path) ==
    LET seg == Last(path)
    IN  IF Len(seg) >= 2 /\ Last(seg) = "js"
        THEN LET s1 == Front(seg)
             IN  IF Len(s1) >= 2 /\ Last(s1) \in FormatSuffixes
                 THEN Append(Front(path), Front(s1))
                 ELSE Append(Front(path), s1)
        ELSE path

\* lines 162-167
MainNoExtension(entry) ==
    LET multipleEntries == Len(entries) > 1
        name == IF IsIndexEntry(entry) THEN output ELSE entry
    IN  StripJs(IF multipleEntries
                THEN Append(Front(output), Last(name))
                ELSE output)

\* lines 158-160: name is absolute, so the result is name followed by the
\* extensions of filename (its base name without the text before the first dot)
replaceName(filename, name) ==
    Append(Front(name), Last(name) \o Tail(Last(filename)))

\* /src\// : some directory of the path is (ends in) src
MatchesSrcSlash(path) == \E i \in 1..(Len(path) - 1) : Last(path[i]) = "src"

XMJs == << <<"x", "m", "js">> >>
XJs == << <<"x", "js">> >>
XUmdJs == << <<"x", "umd", "js">> >>

moduleMain(entry) ==
    replaceName(IF pkg.module # <<>> /\ ~MatchesSrcSlash(pkg.module) THEN pkg.module
                ELSE IF pkg.jsnext # <<>> THEN pkg.jsnext ELSE XMJs,
                MainNoExtension(entry))
cjsMain(entry) ==
    replaceName(IF pkg.cjsMain # <<>> THEN pkg.cjsMain ELSE XJs, MainNoExtension(entry))
umdMain(entry) ==
    replaceName(IF pkg.umdMain # <<>> THEN pkg.umdMain ELSE XUmdJs, MainNoExtension(entry))

\* line 296
OutputFile(entry, format) ==
    IF format = "es" THEN moduleMain(entry)
    ELSE IF format = "umd" THEN umdMain(entry)
    ELSE cjsMain(entry)

\* a variant without the format test
ExportType_anyFormat(entry, format) ==
    IF isFile(entry)
    THEN LET file == env.text[entry]
         IN  IF file.def /\ (file.decl \/ file.list) THEN "default" ELSE Absent
    ELSE Absent

\* lines 178-187: the file's text is known by which of the three patterns
\* it matches; a failed read leaves exportType undefined
ExportType(entry, format) ==
    IF format # "es" /\ isFile(entry)
    THEN LET file == env.text[entry]
             hasDefault == file.def
             hasNamed == file.decl \/ file.list
         IN  IF hasDefault /\ hasNamed THEN "default" ELSE Absent
    ELSE Absent

\* the config object of step k; nameCache starts as the literal {} of line
\* 175, object k, and that object is what uglify() is handed on line 259
createConfig(entry, format, writeMeta, k) ==
    LET exportType == ExportType(entry, format)
    IN  [entry |-> entry,
         format |-> format,
         writeMeta |-> writeMeta,
         input |-> IF exportType # Absent THEN WrapperEntry ELSE entry,
         exports |-> IF exportType # Absent THEN "default" ELSE Absent,
         file |-> OutputFile(entry, format),
         uglifyCache |-> IF env.opts.compress THEN k ELSE 0,
         mangleHooks |-> pkg.mangle,
         cache |-> 0,
         code |-> 0]

\* lines 78-83: entry-major, format-minor; only the first step writes metadata
Schedule(fmts) ==
    [n \in 1..(Len(entries) * Len(fmts)) |->
        LET i == ((n - 1) \div Len(fmts)) + 1
            j == ((n - 1) % Len(fmts)) + 1
        IN  createConfig(entries[i], fmts[j], i = 1 /\ j = 1, n)]


(***************************************************************************)
(* The state before microbundle() is called.                               *)
(***************************************************************************)
NoPromise == [state |-> "pending", reason |-> "none", step |-> 0]
NoEvent == [step |-> 0, code |-> "none"]
NoWrite == [has |-> FALSE, names |-> {}]
NoManifest ==
    [present |-> FALSE, name |-> <<>>, source |-> <<>>, main |-> <<>>,
     module |-> <<>>, jsnext |-> <<>>, cjsMain |-> <<>>, umdMain |-> <<>>,
     mangle |-> FALSE]
NoBabel == [kind |-> "none"]

\* the names a name cache can hold: one from an earlier run, one that the
\* compression pass of this run records
Names == {"old", "new"}

RunIdle ==
    /\ pkg = NoManifest
    /\ input = <<>>
    /\ output = <<>>
    /\ entries = <<>>
    /\ formats = <<>>
    /\ steps = <<>>
    /\ promise = NoPromise
    /\ cache = 0
    /\ cur = 0
    /\ phase = <<>>
    /\ out = <<>>
    /\ written = <<>>
    /\ wrote = <<>>
    /\ lastEvent = NoEvent
    /\ nEvents = 0
    /\ heap = <<>>
    /\ nameCache = <<>>
    /\ pendingWrite = NoWrite

(***************************************************************************)
(* microbundle(), lines 33-83.                                             *)
(***************************************************************************)
\* lines 34-49: a missing or unreadable manifest is {}, a missing name is
\* the base name of cwd
LoadManifest ==
    /\ pc = "start"
    /\ pkg' = [(IF env.manifest.present THEN env.manifest ELSE NoManifest)
                 EXCEPT !.name = IF env.manifest.present /\ env.manifest.name # <<>>
                                 THEN env.manifest.name ELSE <<"proj">>]
    /\ pc' = "input"
    /\ UNCHANGED <<env, input, output, entries, formats, steps, promise, cache,
                   cur, phase, out, written, wrote, lastEvent, nEvents, heap,
                   nameCache, mangleFile, pendingWrite, babelVars>>

\* lines 51-54: resolve(cwd, undefined) throws a TypeError
ResolveInput ==
    /\ pc = "input"
    /\ IF <<>> \in Range(EntryCandidate)
       THEN /\ promise' = [state |-> "rejected", reason |-> "TypeError", step |-> 0]
            /\ pc' = "failed"
            /\ input' = input
       ELSE /\ input' = Flatten([i \in 1..Len(EntryCandidate) |-> Glob(EntryCandidate[i])])
            /\ pc' = "output"
            /\ promise' = promise
    /\ UNCHANGED <<env, pkg, output, entries, formats, steps, cache, cur, phase,
                   out, written, wrote, lastEvent, nEvents, heap, nameCache,
                   mangleFile, pendingWrite, babelVars>>

\* lines 56-60
ResolveOutput ==
    /\ pc = "output"
    /\ output' = MainPath
    /\ pc' = "entries"
    /\ UNCHANGED <<env, pkg, input, entries, formats, steps, promise, cache, cur,
                   phase, out, written, wrote, lastEvent, nEvents, heap,
                   nameCache, mangleFile, pendingWrite, babelVars>>

\* lines 62-72
ResolveEntries ==
    /\ pc = "entries"
    /\ entries' = ResolvedEntries
    /\ pc' = "schedule"
    /\ UNCHANGED <<env, pkg, input, output, formats, steps, promise, cache, cur,
                   phase, out, written, wrote, lastEvent, nEvents, heap,
                   nameCache, mangleFile, pendingWrite, babelVars>>

\* lines 74-83: sort the formats and build every step's config; each config
\* owns one fresh {} (object k) and may later own one parsed object (N + k)
ScheduleSteps ==
    /\ pc = "schedule"
    /\ \E engine \in SortEngines :
          /\ formats' = SortFormats(engine, env.opts.format)
          /\ steps' = Schedule(formats')
    /\ phase' = [k \in 1..Len(steps') |-> "idle"]
    /\ nameCache' = [k \in 1..Len(steps') |-> k]
    /\ heap' = [id \in 1..(2 * Len(steps')) |-> {}]
    /\ pc' = "execute"
    /\ UNCHANGED <<env, pkg, input, output, entries, promise, cache, cur, out,
                   written, wrote, lastEvent, nEvents, mangleFile, pendingWrite,
                   babelVars>>

(***************************************************************************)
(* Watch mode, lines 92-111.  The rebuilds themselves happen inside        *)
(* rollup's watcher; what is modelled is the event handler.                *)
(***************************************************************************)
EventCodes == {"START", "BUNDLE_START", "BUNDLE_END", "END", "ERROR", "FATAL"}

\* lines 93-98: one watcher per step; the promise is returned pending
StartWatch ==
    /\ pc = "execute"
    /\ env.opts.watch
    /\ pc' = "watching"
    /\ UNCHANGED <<env, runVars, babelVars>>
\* a variant that treats only ERROR as fatal
OnEventPromise_errorOnly(k, code) ==
    IF code = "ERROR" /\ promise.state = "pending"
    THEN [state |-> "rejected", reason |-> code, step |-> k]
    ELSE promise

\* the effect of the handler of lines 99-108 on the promise
OnEventPromise(k, code) ==
    IF code \in {"ERROR", "FATAL"} /\ promise.state = "pending"
    THEN [state |-> "rejected", reason |-> code, step |-> k]
    ELSE promise

\* the handler's size report: "Wrote <size>: <file of this watcher>"
OnEventWrote(k, code) ==
    IF code = "END" THEN Append(wrote, steps[k].file) ELSE wrote

WatchEvent(k, code) ==
    /\ pc = "watching"
    /\ nEvents < MaxEvents
    /\ promise' = OnEventPromise(k, code)
    /\ wrote' = OnEventWrote(k, code)
    /\ lastEvent' = [step |-> k, code |-> code]
    /\ nEvents' = nEvents + 1
    /\ UNCHANGED <<pc, env, pkg, input, output, entries, formats, steps, cache,
                   cur, phase, out, written, heap, nameCache, mangleFile,
                   pendingWrite, babelVars>>

(***************************************************************************)
(* Sequential mode, lines 113-122, with the plugin hooks of lines 250-278  *)
(* that run inside rollup() and bundle.write().                            *)
(***************************************************************************)
StartSeries ==
    /\ pc = "execute"
    /\ ~env.opts.watch
    /\ cache' = 0
    /\ cur' = 1
    /\ pc' = "series"
    /\ UNCHANGED <<env, pkg, input, output, entries, formats, steps, promise,
                   phase, out, written, wrote, lastEvent, nEvents, heap,
                   nameCache, mangleFile, pendingWrite, babelVars>>
\* a variant that never hands a cache on
CacheInput_none(k) == 0

\* line 115: the cache handed to rollup
CacheInput(k) == cache

\* lines 263-268, the options() hook: on a successful read the VARIABLE
\* nameCache is bound to the freshly parsed object; a failed read or parse
\* is swallowed
ReadNameCache(k) ==
    IF steps[k].mangleHooks /\ mangleFile.state = "ok"
    THEN Len(steps) + k
    ELSE nameCache[k]

\* lines 115-116: assign the cache, call rollup(), which runs options()
StepStart ==
    /\ pc = "series"
    /\ cur <= Len(steps)
    /\ phase[cur] = "idle"
    /\ steps' = [steps EXCEPT ![cur].cache = CacheInput(cur)]
    /\ nameCache' = [nameCache EXCEPT ![cur] = ReadNameCache(cur)]
    /\ heap' = IF nameCache'[cur] # nameCache[cur]
               THEN [heap EXCEPT ![nameCache'[cur]] = mangleFile.names]
               ELSE heap
    /\ phase' = [phase EXCEPT ![cur] = "bundling"]
    /\ UNCHANGED <<pc, env, pkg, input, output, entries, formats, promise, cache,
                   cur, out, written, wrote, lastEvent, nEvents, mangleFile,
                   pendingWrite, babelVars>>

\* lines 116-118: rollup() resolved with the bundle of this step (object cur)
StepBundled ==
    /\ pc = "series"
    /\ cur <= Len(steps)
    /\ phase[cur] = "bundling"
    /\ cache' = cur
    /\ phase' = [phase EXCEPT ![cur] = "writing"]
    /\ UNCHANGED <<pc, env, pkg, input, output, entries, formats, steps, promise,
                   cur, out, written, wrote, lastEvent, nEvents, heap, nameCache,
                   mangleFile, pendingWrite, babelVars>>

\* line 118, bundle.write(): uglify's transformBundle records names in the
\* object it was constructed with, ongenerate captures the code, the file is
\* written, and onwrite (lines 270-274) starts writing JSON.stringify of
\* what the variable nameCache holds
StepWritten ==
    /\ pc = "series"
    /\ cur <= Len(steps)
    /\ phase[cur] = "writing"
    /\ heap' = IF steps[cur].uglifyCache # 0
               THEN [heap EXCEPT ![steps[cur].uglifyCache] = @ \cup {"new"}]
               ELSE heap
    /\ steps' = [steps EXCEPT ![cur].code = cur]
    /\ written' = Append(written, steps[cur].file)
    /\ pendingWrite' = IF steps[cur].mangleHooks /\ steps[cur].writeMeta
                       THEN [has |-> TRUE, names |-> heap'[nameCache[cur]]]
                       ELSE pendingWrite
    /\ phase' = [phase EXCEPT ![cur] = "sizing"]
    /\ UNCHANGED <<pc, env, pkg, input, output, entries, formats, promise, cache,
                   cur, out, wrote, lastEvent, nEvents, nameCache, mangleFile,
                   babelVars>>

\* line 119: getSizeInfo resolved; series() goes on to the next step
StepSized ==
    /\ pc = "series"
    /\ cur <= Len(steps)
    /\ phase[cur] = "sizing"
    /\ out' = Append(out, steps[cur].file)
    /\ phase' = [phase EXCEPT ![cur] = "done"]
    /\ cur' = cur + 1
    /\ UNCHANGED <<pc, env, pkg, input, output, entries, formats, steps, promise,
                   cache, written, wrote, lastEvent, nEvents, heap, nameCache,
                   mangleFile, pendingWrite, babelVars>>

\* rollup() or bundle.write() rejected: series() stops, the run is rejected
StepFail ==
    /\ pc = "series"
    /\ cur <= Len(steps)
    /\ phase[cur] \in {"bundling", "writing"}
    /\ promise' = [state |-> "rejected", reason |-> "rollup", step |-> cur]
    /\ pc' = "failed"
    /\ UNCHANGED <<env, pkg, input, output, entries, formats, steps, cache, cur,
                   phase, out, written, wrote, lastEvent, nEvents, heap,
                   nameCache, mangleFile, pendingWrite, babelVars>>

\* line 122
Finish ==
    /\ pc = "series"
    /\ cur > Len(steps)
    /\ promise' = [state |-> "resolved", reason |-> "none", step |-> 0]
    /\ pc' = "done"
    /\ UNCHANGED <<env, pkg, input, output, entries, formats, steps, cache, cur,
                   phase, out, written, wrote, lastEvent, nEvents, heap,
                   nameCache, mangleFile, pendingWrite, babelVars>>

\* the fs.writeFile of line 272 completes
FlushWrite ==
    /\ pendingWrite.has
    /\ mangleFile' = [state |-> "ok", names |-> pendingWrite.names]
    /\ pendingWrite' = NoWrite
    /\ UNCHANGED <<pc, env, pkg, input, output, entries, formats, steps, promise,
                   cache, cur, phase, out, written, wrote, lastEvent, nEvents,
                   heap, nameCache, babelVars>>


(***************************************************************************)
(* babel-custom.js.  lodash.merge, as the code uses it: own keys of the    *)
(* source are assigned over the target, plain objects recursively, arrays  *)
(* INDEX BY INDEX, and an undefined source value assigns nothing.          *)
(***************************************************************************)
EmptyMap == <<>>
Obj(s, o, a) == [s |-> s, o |-> o, a |-> a]
EmptyObj == Obj(EmptyMap, EmptyMap, EmptyMap)

MergeMap(f, g) ==
    [k \in DOMAIN f \cup DOMAIN g |-> IF k \in DOMAIN g THEN g[k] ELSE f[k]]

MergeArr(a, b) ==
    [i \in 1..Max(Len(a), Len(b)) |-> IF i <= Len(b) THEN b[i] ELSE a[i]]
\* a variant that assigns the source's values without descending
\* (Object.assign)
merge_shallow(object, source) ==
    [s |-> MergeMap(object.s, source.s),
     o |-> MergeMap(object.o, source.o),
     a |-> MergeMap(object.a, source.a)]

merge(object, source) ==
    [s |-> MergeMap(object.s, source.s),
     o |-> [k \in DOMAIN object.o \cup DOMAIN source.o |->
               IF k \in DOMAIN object.o /\ k \in DOMAIN source.o
               THEN MergeMap(object.o[k], source.o[k])
               ELSE IF k \in DOMAIN source.o THEN source.o[k] ELSE object.o[k]],
     a |-> [k \in DOMAIN object.a \cup DOMAIN source.a |->
               IF k \in DOMAIN object.a /\ k \in DOMAIN source.a
               THEN MergeArr(object.a[k], source.a[k])
               ELSE IF k \in DOMAIN source.a THEN source.a[k] ELSE object.a[k]]]

\* a request as the user wrote it is <<name>>; the file it resolves to is
\* <<"node_modules", name>>
JsxPlugin == "@babel/plugin-transform-react-jsx"
ReplacePlugin == "babel-plugin-transform-replace-expressions"
AsyncPlugin == "babel-plugin-transform-async-to-promises"
ClassPropsPlugin == "@babel/plugin-proposal-class-properties"
RegeneratorPlugin == "@babel/plugin-transform-regenerator"
UserPlugin == "babel-plugin-user"
PresetEnv == "@babel/preset-env"
PresetEnvShort == "@babel/env"
PresetReact == "@babel/preset-react"

requireResolve(name) ==
    <<"node_modules", IF name = PresetEnvShort THEN PresetEnv ELSE name>>

\* createConfigItem([value, options], { type }): request and resolved are
\* both the path that was passed
createConfigItem(value, options, type) ==
    [request |-> value, resolved |-> value, options |-> options, type |-> type,
     name |-> 0]

\* a ConfigItem as Babel loaded it from the project's configuration; name is
\* the instance name of the entry (0: none)
LoadedItem(name, options, type) ==
    [request |-> <<name>>, resolved |-> requireResolve(name), options |-> options,
     type |-> type, name |-> 0]

\* Babel rejects a list that holds the same plugin twice unless the entries
\* carry distinct instance names: the entries of a repeated plugin are named
\* by their position
NameInstances(list) ==
    [i \in 1..Len(list) |->
        IF \E j \in 1..Len(list) : j # i /\ list[j].resolved = list[i].resolved
        THEN [list[i] EXCEPT !.name = i]
        ELSE list[i]]

\* lines 6-33: over the lists in order, push an item whose resolved file is
\* new, else replace the one found by a new item with the merged options
FindIndex(mergedItems, item) ==
    LET hits == {i \in 1..Len(mergedItems) : mergedItems[i].resolved = item.resolved}
    IN  IF hits = {} THEN 0 ELSE CHOOSE i \in hits : \A j \in hits : i <= j

MergeOne(type, mergedItems, item) ==
    LET itemToMergeWithIndex == FindIndex(mergedItems, item)
    IN  IF itemToMergeWithIndex = 0
        THEN Append(mergedItems, item)
        ELSE [mergedItems EXCEPT ![itemToMergeWithIndex] =
                 createConfigItem(mergedItems[itemToMergeWithIndex].resolved,
                                  merge(mergedItems[itemToMergeWithIndex].options,
                                        item.options),
                                  type)]

RECURSIVE MergeAll(_, _, _)
MergeAll(type, mergedItems, items) ==
    IF items = <<>> THEN mergedItems
    ELSE MergeAll(type, MergeOne(type, mergedItems, Head(items)), Tail(items))

mergeConfigItems(type, listA, listB) == MergeAll(type, <<>>, listA \o listB)

\* lines 35-39
createConfigItems(type, items) ==
    [i \in 1..Len(items) |->
        createConfigItem(requireResolve(items[i].name), items[i].options, type)]

\* '../utils' isTruthy, for the defines object
isTruthy(defines) == defines # EmptyMap

\* lines 55-81
defaultPlugins(customOptions) ==
    createConfigItems("plugin",
        << [name |-> JsxPlugin,
            options |-> Obj(("pragma" :> (IF customOptions.jsx # Absent
                                          THEN customOptions.jsx ELSE "h"))
                            @@ ("pragmaFrag" :> (IF customOptions.jsxFragment # Absent
                                                 THEN customOptions.jsxFragment
                                                 ELSE "Fragment")),
                            EmptyMap, EmptyMap)] >>
        \o (IF isTruthy(customOptions.defines)
            THEN << [name |-> ReplacePlugin,
                     options |-> Obj(EmptyMap, "replace" :> customOptions.defines,
                                     EmptyMap)] >>
            ELSE <<>>)
        \o << [name |-> AsyncPlugin,
               options |-> Obj(("inlineHelpers" :> "true") @@ ("externalHelpers" :> "true"),
                               EmptyMap, EmptyMap)],
              [name |-> ClassPropsPlugin,
               options |-> Obj("loose" :> "true", EmptyMap, EmptyMap)],
              [name |-> RegeneratorPlugin,
               options |-> Obj("async" :> "false", EmptyMap, EmptyMap)] >>)

ForcedExcludes == <<"transform-async-to-generator", "transform-regenerator">>

TargetsMap(customOptions) ==
    IF customOptions.targets # Absent THEN "targets" :> customOptions.targets
    ELSE EmptyMap

\* lines 94-120: the override of a preset whose request is @babel/preset-env
OverridePreset(preset, customOptions) ==
    IF preset.request = <<PresetEnv>>
    THEN createConfigItem(
             preset.resolved,
             merge(merge(Obj(("loose" :> "true") @@ TargetsMap(customOptions),
                             EmptyMap, EmptyMap),
                         preset.options),
                   Obj("modules" :> "false", EmptyMap,
                       "exclude" :> MergeArr(ForcedExcludes,
                                             IF "exclude" \in DOMAIN preset.options.a
                                             THEN preset.options.a["exclude"]
                                             ELSE <<>>))),
             "preset")
    ELSE preset

\* lines 126-134
SynthesizedPresets(customOptions) ==
    createConfigItems("preset",
        << [name |-> PresetEnv,
            options |-> Obj(("modules" :> "false") @@ ("loose" :> "true")
                                @@ TargetsMap(customOptions),
                            EmptyMap,
                            "exclude" :> ForcedExcludes)] >>)

\* config(), lines 54-145
BabelConfig(in) ==
    LET base == IF in.hasFs
                THEN [presets |-> IF in.presets.has
                                  THEN [has |-> TRUE,
                                        v |-> [i \in 1..Len(in.presets.v) |->
                                                  OverridePreset(in.presets.v[i], in.custom)]]
                                  ELSE in.presets,
                      plugins |-> in.plugins]
                ELSE [presets |-> [has |-> TRUE, v |-> SynthesizedPresets(in.custom)],
                      plugins |-> [has |-> TRUE, v |-> <<>>]]
    IN  [kind |-> "result",
         presets |-> base.presets,
         plugins |-> mergeConfigItems("plugin", defaultPlugins(in.custom),
                                      IF base.plugins.has THEN base.plugins.v ELSE <<>>)]

CallConfig ==
    /\ pc = "babel"
    /\ bOut' = BabelConfig(bIn)
    /\ pc' = "babel-done"
    /\ UNCHANGED <<env, runVars, bIn>>


(***************************************************************************)
(* The inputs.  Each group below varies some of the inputs around one      *)
(* ordinary project (manifest acme, src/index.js, formats es,cjs).         *)
(***************************************************************************)
DefaultManifest ==
    [present |-> TRUE, name |-> <<"acme">>, source |-> <<>>, main |-> DistAcme,
     module |-> DistAcmeModule, jsnext |-> <<>>, cjsMain |-> <<>>, umdMain |-> <<>>,
     mangle |-> FALSE]

DefaultOpts ==
    [entries |-> <<>>, format |-> <<"es", "cjs">>, watch |-> FALSE,
     compress |-> TRUE, output |-> <<>>]

TextClasses == [def : BOOLEAN, decl : BOOLEAN, list : BOOLEAN]
DefaultOnly == [def |-> TRUE, decl |-> FALSE, list |-> FALSE]
DefaultAndNamed == [def |-> TRUE, decl |-> TRUE, list |-> FALSE]
DefaultText == [f \in AllFiles |-> IF f = SrcIndex THEN DefaultAndNamed ELSE DefaultOnly]

NoMangleFile == [state |-> "missing", names |-> {}]

FormatLists == UNION {[1..n -> Formats] : n \in 1..MaxFormats}

MakeEnv(manifest, files, extraDirs, text, opts) ==
    [manifest |-> manifest, files |-> files, dirs |-> ParentDirs(files) \cup extraDirs,
     text |-> text, opts |-> opts]

DefaultEnv == MakeEnv(DefaultManifest, AllFiles, {}, DefaultText, DefaultOpts)

\* requested formats in every order, one or two entries, both modes
InitFormats ==
    /\ \E fmt \in FormatLists, w \in BOOLEAN, ents \in {<<>>, <<SrcFoo, LibFoo>>} :
          /\ w => ents = <<>>
          /\ env = [DefaultEnv EXCEPT !.opts.format = fmt, !.opts.watch = w,
                                      !.opts.entries = ents]
    /\ mangleFile = NoMangleFile

\* several watchers
InitWatchers ==
    /\ \E fmt \in {<<"cjs">>, <<"es", "cjs">>},
          ents \in {<<SrcFoo, LibFoo>>, <<Missing>>, <<SrcStar>>} :
          env = [DefaultEnv EXCEPT !.opts.format = fmt, !.opts.watch = TRUE,
                                   !.opts.entries = ents]
    /\ mangleFile = NoMangleFile

\* every filesystem, with and without the manifest's source and module
InitEntries ==
    /\ \E files \in SUBSET AllFiles, extra \in {{}, {SrcDir}},
          present \in BOOLEAN,
          source \in {<<>>, SrcFoo, Missing, SrcStar},
          module \in {<<>>, DistAcmeModule, LibFoo},
          ents \in {<<>>, <<Missing>>, <<SrcDir, SrcIndex>>, <<LibDir, SrcStar>>} :
          env = MakeEnv([DefaultManifest EXCEPT !.present = present,
                                                !.source = source, !.module = module],
                        files, extra, DefaultText,
                        [DefaultOpts EXCEPT !.entries = ents, !.format = <<"cjs">>])
    /\ mangleFile = NoMangleFile

\* the manifest's output fields
InitPaths ==
    /\ \E main \in {<<>>, DistAcme, DistDir, DistAcmeUmd},
          module \in {<<>>, DistAcmeModule, DistAcme, SrcIndex},
          jsnext \in {<<>>, DistAcmeMjs},
          cjsF \in {<<>>, DistAcme},
          umdF \in {<<>>, DistAcmeUmd},
          name \in {<<>>, <<"acme">>},
          outOpt \in {<<>>, << <<"build">>, <<"out", "js">> >>},
          ents \in {<<>>, <<SrcFoo, LibFoo>>, <<SrcIndex, LibIndex>>, <<SrcIndex, SrcFoo>>},
          fmt \in {<<"es", "cjs">>, <<"umd", "es">>} :
          env = [DefaultEnv EXCEPT
                    !.manifest = [DefaultManifest EXCEPT
                                     !.main = main, !.module = module,
                                     !.jsnext = jsnext, !.cjsMain = cjsF,
                                     !.umdMain = umdF, !.name = name],
                    !.opts.output = outOpt, !.opts.entries = ents,
                    !.opts.format = fmt]
    /\ mangleFile = NoMangleFile

\* the texts of the entries, readable or not
InitShapes ==
    /\ \E t1 \in TextClasses, t2 \in {DefaultOnly, DefaultAndNamed},
          files \in {AllFiles, AllFiles \ {SrcIndex}},
          ents \in {<<>>, <<SrcDir>>, <<SrcIndex, SrcFoo>>},
          fmt \in {<<"es">>, <<"cjs">>, <<"umd", "es">>, <<"amd">>} :
          env = MakeEnv(DefaultManifest, files, {},
                        [DefaultText EXCEPT ![SrcIndex] = t1, ![SrcFoo] = t2],
                        [DefaultOpts EXCEPT !.entries = ents, !.format = fmt])
    /\ mangleFile = NoMangleFile

\* the name cache
InitMangle ==
    /\ \E mangle \in BOOLEAN, compress \in BOOLEAN,
          ents \in {<<>>, <<SrcIndex, SrcFoo>>},
          fmt \in {<<"cjs">>, <<"es", "cjs">>} :
          env = [DefaultEnv EXCEPT !.manifest.mangle = mangle,
                                   !.opts.compress = compress,
                                   !.opts.entries = ents, !.opts.format = fmt]
    /\ mangleFile \in {NoMangleFile, [state |-> "corrupt", names |-> {}],
                       [state |-> "ok", names |-> {}],
                       [state |-> "ok", names |-> {"old"}]}

InitRun ==
    /\ pc = "start"
    /\ RunIdle
    /\ bIn = NoBabel
    /\ bOut = NoBabel
    /\ \/ InitFormats
       \/ InitWatchers
       \/ InitEntries
       \/ InitPaths
       \/ InitShapes
       \/ InitMangle

\* the arguments of config()
Customs ==
    [jsx : {Absent, "React.createElement"}, jsxFragment : {Absent},
     defines : {EmptyMap, "DEBUG" :> "false"}, targets : {Absent, "node 8"}]

PresetOptionsPool ==
    { EmptyObj,
      Obj("loose" :> "false", EmptyMap, EmptyMap),
      Obj(("modules" :> "commonjs") @@ ("useBuiltIns" :> "usage"), EmptyMap, EmptyMap),
      Obj("targets" :> "ie 11", EmptyMap, EmptyMap),
      Obj(EmptyMap, EmptyMap, "exclude" :> <<"transform-typeof-symbol">>),
      Obj(EmptyMap, EmptyMap, "exclude" :> ForcedExcludes),
      Obj(EmptyMap, EmptyMap,
          "exclude" :> <<"transform-typeof-symbol", "transform-spread",
                         "transform-for-of">>),
      Obj(EmptyMap, EmptyMap,
          "exclude" :> <<"transform-regenerator", "transform-async-to-generator">>) }

PresetLists ==
    UNION { { << LoadedItem(PresetEnv, o, "preset") >>,
              << LoadedItem(PresetReact, EmptyObj, "preset"),
                 LoadedItem(PresetEnv, o, "preset") >>,
              << LoadedItem(PresetEnvShort, o, "preset") >> } : o \in PresetOptionsPool }

PluginPool ==
    { LoadedItem(JsxPlugin, EmptyObj, "plugin"),
      LoadedItem(JsxPlugin, Obj("pragma" :> "createElement", EmptyMap, EmptyMap), "plugin"),
      LoadedItem(JsxPlugin,
                 Obj(("pragmaFrag" :> "Frag") @@ ("throwIfNamespace" :> "false"),
                     EmptyMap, EmptyMap), "plugin"),
      LoadedItem(ClassPropsPlugin, Obj("loose" :> "false", EmptyMap, EmptyMap), "plugin"),
      LoadedItem(ReplacePlugin, Obj(EmptyMap, "replace" :> ("VERSION" :> "1"), EmptyMap),
                 "plugin"),
      LoadedItem(ReplacePlugin, Obj(EmptyMap, "replace" :> ("DEBUG" :> "true"), EmptyMap),
                 "plugin"),
      LoadedItem(UserPlugin, EmptyObj, "plugin"),
      LoadedItem(UserPlugin, Obj("mode" :> "a", EmptyMap, "only" :> <<"x", "y">>),
                 "plugin"),
      LoadedItem(UserPlugin, Obj("mode" :> "b", EmptyMap, "only" :> <<"z">>), "plugin") }

PluginLists == {NameInstances(l) : l \in UNION {[1..n -> PluginPool] : n \in 0..MaxPlugins}}

Maybe(S) == {[has |-> FALSE, v |-> <<>>]} \cup {[has |-> TRUE, v |-> x] : x \in S}

InitBabel ==
    /\ pc = "babel"
    /\ RunIdle
    /\ env = DefaultEnv
    /\ mangleFile = NoMangleFile
    /\ bOut = NoBabel
    /\ \/ \E c \in Customs, hasFs \in BOOLEAN, ps \in Maybe(PresetLists),
             pl \in Maybe({<<>>}) :
             bIn = [kind |-> "config", custom |-> c, hasFs |-> hasFs,
                    presets |-> ps, plugins |-> pl]
       \/ \E c \in Customs, pl \in Maybe(PluginLists) :
             /\ c.targets = Absent
             /\ bIn = [kind |-> "config", custom |-> c, hasFs |-> TRUE,
                       presets |-> [has |-> FALSE, v |-> <<>>], plugins |-> pl]

Init == InitRun \/ InitBabel

Next ==
    \/ LoadManifest
    \/ ResolveInput
    \/ ResolveOutput
    \/ ResolveEntries
    \/ ScheduleSteps
    \/ StartWatch
    \/ \E k \in 1..Len(steps), code \in EventCodes : WatchEvent(k, code)
    \/ StartSeries
    \/ StepStart
    \/ StepBundled
    \/ StepWritten
    \/ StepSized
    \/ StepFail
    \/ Finish
    \/ FlushWrite
    \/ CallConfig

Spec == Init /\ [][Next]_vars


(***************************************************************************)
(* The properties.                                                         *)
(***************************************************************************)
AfterInput == pc \in {"output", "entries", "schedule", "execute", "watching",
                      "series", "done", "failed"}
AfterSchedule == pc \in {"execute", "watching", "series", "done"}
               \/ (pc = "failed" /\ promise.reason = "rollup")
BabelDone == pc = "babel-done"

\* C1: every @babel/preset-env item of the project's configuration, and the
\* synthesized one, comes out of config() with modules false, loose true and
\* an exclude list holding both forced excludes and the user's excludes.
EnvOptionsAsClaimed(options, userExcludes) ==
    /\ "modules" \in DOMAIN options.s /\ options.s["modules"] = "false"
    /\ "loose" \in DOMAIN options.s /\ options.s["loose"] = "true"
    /\ "exclude" \in DOMAIN options.a
    /\ Range(ForcedExcludes) \cup Range(userExcludes) \subseteq Range(options.a["exclude"])

C1_PresetEnvOverride ==
    BabelDone =>
        IF bIn.hasFs
        THEN bIn.presets.has =>
                \A i \in 1..Len(bIn.presets.v) :
                    bIn.presets.v[i].request = <<PresetEnv>> =>
                        EnvOptionsAsClaimed(
                            bOut.presets.v[i].options,
                            IF "exclude" \in DOMAIN bIn.presets.v[i].options.a
                            THEN bIn.presets.v[i].options.a["exclude"] ELSE <<>>)
        ELSE \A i \in 1..Len(bOut.presets.v) :
                 EnvOptionsAsClaimed(bOut.presets.v[i].options, <<>>)

\* C2: when the schedule has at least two steps, no two steps have the same
\* output file.
C2_UniqueOutputs ==
    (AfterSchedule /\ Len(steps) >= 2) =>
        \A i, j \in 1..Len(steps) : i # j => steps[i].file # steps[j].file

\* What a deep merge of a sequence of options objects is, leaf by leaf: the
\* keys are those of all the objects, and each leaf (a scalar key, a key of a
\* nested object, an index of an array) has the value of the last object that
\* defines it.
LastOf(S) == CHOOSE i \in S : \A j \in S : j <= i

IsDeepMergeOf(r, objs) ==
    LET N == 1..Len(objs)
    IN  /\ DOMAIN r.s = UNION {DOMAIN objs[j].s : j \in N}
        /\ \A k \in DOMAIN r.s :
              r.s[k] = objs[LastOf({j \in N : k \in DOMAIN objs[j].s})].s[k]
        /\ DOMAIN r.o = UNION {DOMAIN objs[j].o : j \in N}
        /\ \A k \in DOMAIN r.o :
              LET has == {j \in N : k \in DOMAIN objs[j].o}
              IN  /\ DOMAIN r.o[k] = UNION {DOMAIN objs[j].o[k] : j \in has}
                  /\ \A q \in DOMAIN r.o[k] :
                        r.o[k][q] =
                            objs[LastOf({j \in has : q \in DOMAIN objs[j].o[k]})].o[k][q]
        /\ DOMAIN r.a = UNION {DOMAIN objs[j].a : j \in N}
        /\ \A k \in DOMAIN r.a :
              LET has == {j \in N : k \in DOMAIN objs[j].a}
              IN  /\ \A j \in has : Len(r.a[k]) >= Len(objs[j].a[k])
                  /\ \A i \in 1..Len(r.a[k]) :
                        /\ {j \in has : Len(objs[j].a[k]) >= i} # {}
                        /\ r.a[k][i] =
                              objs[LastOf({j \in has : Len(objs[j].a[k]) >= i})].a[k][i]

ListA == defaultPlugins(bIn.custom)
ListB == IF bIn.hasFs /\ bIn.plugins.has THEN bIn.plugins.v ELSE <<>>
ResolvedOf(list) == [i \in 1..Len(list) |-> list[i].resolved]
FirstSeenOrder == Dedup(ResolvedOf(ListA \o ListB))
At(list, path) == SelectSeq(list, LAMBDA x : x.resolved = path)
OptionsOf(list) == [i \in 1..Len(list) |-> list[i].options]

\* C3 as amended: the result holds one item per resolved path, in first-seen
\* order over A followed by B; an item whose path occurs once in A followed by
\* B is that item unchanged; items that share a path, across the lists or
\* within one list, are folded into one new item at that path whose options
\* are their deep merge in order, the later value winning.
C3_MergeFold ==
    BabelDone =>
        /\ ResolvedOf(bOut.plugins) = FirstSeenOrder
        /\ \A i \in 1..Len(bOut.plugins) :
              LET r == bOut.plugins[i]
                  from == At(ListA \o ListB, r.resolved)
              IN  IF Len(from) = 1
                  THEN r = from[1]
                  ELSE /\ r.request = r.resolved
                       /\ r.type = "plugin"
                       /\ IsDeepMergeOf(r.options, OptionsOf(from))

\* C3's case: the project configures one of the default plugins with a
\* different value for a key the default sets, and adds a plugin of its own.
C3_Witness ==
    /\ BabelDone
    /\ \E ib \in 1..Len(ListB), ia \in 1..Len(ListA) :
          /\ ListB[ib].resolved = ListA[ia].resolved
          /\ \E k \in DOMAIN ListB[ib].options.s \cap DOMAIN ListA[ia].options.s :
                ListB[ib].options.s[k] # ListA[ia].options.s[k]
    /\ \E ib \in 1..Len(ListB) : ListB[ib].resolved \notin Range(ResolvedOf(ListA))

\* C3 as stated: an item of B at the path of an item of A gives exactly one
\* item with the deep merge of the two; an item whose path occurs in only one
\* of the lists appears unchanged; the order is first-seen.
C3_MergeAsClaimed ==
    BabelDone =>
        /\ \A ia \in 1..Len(ListA), ib \in 1..Len(ListB) :
              ListA[ia].resolved = ListB[ib].resolved =>
                  /\ Len(At(bOut.plugins, ListA[ia].resolved)) = 1
                  /\ IsDeepMergeOf(At(bOut.plugins, ListA[ia].resolved)[1].options,
                                   <<ListA[ia].options, ListB[ib].options>>)
        /\ \A x \in Range(ListA) :
              x.resolved \notin Range(ResolvedOf(ListB)) => x \in Range(bOut.plugins)
        /\ \A x \in Range(ListB) :
              x.resolved \notin Range(ResolvedOf(ListA)) => x \in Range(bOut.plugins)
        /\ ResolvedOf(bOut.plugins) = FirstSeenOrder

\* C4: when cjs is among the requested formats, it is the first scheduled
\* format and the first step is the cjs build of the first entry.
C4_CjsFirst ==
    (AfterSchedule /\ "cjs" \in Range(env.opts.format)) =>
        /\ formats[1] = "cjs"
        /\ entries # <<>> =>
              (steps[1].format = "cjs" /\ steps[1].entry = entries[1])

\* C5: a run whose entry resolution yields no entry file fails: it neither
\* completes successfully nor starts watching, and it has no steps.
C5_NoEntryFails ==
    (pc \in {"execute", "watching", "series", "done"} /\ entries = <<>>) =>
        /\ steps = <<>>
        /\ pc # "watching"
        /\ promise.state # "resolved"

\* C6: in watch mode the promise is never resolved; an ERROR or FATAL event
\* of any watcher rejects it at once (with that event, when it was pending);
\* an END event leaves the promise alone and reports the output file of its
\* own watcher; no other event reports or settles anything.
C6_WatchPromise ==
    /\ [](env.opts.watch => promise.state # "resolved")
    /\ [][(pc = "watching" /\ nEvents' = nEvents + 1) =>
            LET e == lastEvent'
            IN  /\ e.code \in {"ERROR", "FATAL"} =>
                      /\ promise'.state = "rejected"
                      /\ promise.state = "pending" =>
                            (promise'.reason = e.code /\ promise'.step = e.step)
                      /\ promise.state # "pending" => promise' = promise
                /\ e.code \notin {"ERROR", "FATAL"} => promise' = promise
                /\ e.code = "END" => wrote' = Append(wrote, steps[e.step].file)
                /\ e.code # "END" => wrote' = wrote]_vars

\* C6's case: several watchers, one has failed and one has reported a build.
C6_Witness ==
    /\ pc = "watching"
    /\ Len(steps) >= 2
    /\ promise.state = "rejected"
    /\ wrote # <<>>

\* C7: in sequential mode the steps are in entry-major, format-minor order; a
\* step has started only if every earlier step is done; the first step got no
\* cache and every later step got the bundle of the step before it; the
\* outputs were written in schedule order.
C7_Sequential ==
    (~env.opts.watch /\ steps # <<>>) =>
        /\ \A n \in 1..Len(steps) :
              /\ steps[n].entry = entries[((n - 1) \div Len(formats)) + 1]
              /\ steps[n].format = formats[((n - 1) % Len(formats)) + 1]
        /\ \A k \in 1..Len(steps) :
              phase[k] # "idle" =>
                  /\ \A j \in 1..(k - 1) : phase[j] = "done"
                  /\ steps[k].cache = k - 1
        /\ \A k \in 1..Len(steps) :
              phase[k] \in {"writing", "sizing", "done"} => cache = Max(cache, k)
        /\ written = [i \in 1..Len(written) |-> steps[i].file]

\* C7's case: a run of four steps has completed.
C7_Witness ==
    /\ pc = "done"
    /\ Len(steps) = 4
    /\ steps[4].cache = 3

\* C8: a step's input is the wrapper entry and its exports mode is default
\* exactly when its format is not es, its entry is readable and the entry's
\* text matches the default-export pattern and a named-export pattern;
\* otherwise the input is the entry and exports is undefined.
C8_WrapperIff ==
    \A k \in 1..Len(steps) :
        LET st == steps[k]
            both == /\ st.format # "es"
                    /\ st.entry \in env.files
                    /\ env.text[st.entry].def
                    /\ (env.text[st.entry].decl \/ env.text[st.entry].list)
        IN  IF both
            THEN st.input = WrapperEntry /\ st.exports = "default"
            ELSE st.input = st.entry /\ st.exports = Absent

\* C8's case: one entry with both export shapes, wrapped for umd, not for es.
C8_Witness ==
    \E k, j \in 1..Len(steps) :
        /\ steps[k].entry = steps[j].entry
        /\ steps[k].format = "umd" /\ steps[k].input = WrapperEntry
        /\ steps[j].format = "es" /\ steps[j].input = steps[j].entry

CandidatesInOrder ==
    <<pkg.source,
      IF SrcDir \in env.dirs THEN SrcIndex ELSE <<>>,
      IF RootIndex \in env.files THEN RootIndex ELSE <<>>,
      pkg.module>>

FirstOf(S) == IF S = {} THEN 0 ELSE CHOOSE i \in S : \A j \in S : i <= j

C10_SameCache ==
    /\ \A k \in 1..Len(steps) :
          (steps[k].mangleHooks /\ steps[k].uglifyCache # 0 /\ phase[k] # "idle") =>
              steps[k].uglifyCache = nameCache[k]
    /\ (pendingWrite.has /\ env.opts.compress) => "new" \in pendingWrite.names

============================================================================
